---- MODULE Spec2Model ----
(***************************************************************************)
(* Model of the Dioxus VirtualDom lifecycle scheduler                       *)
(* (packages/core/src/virtual_dom.rs): the generational scope arena, the   *)
(* lifecycle event queue and progress(); of the web renderer               *)
(* (packages/web/src/dom.rs): apply_edits and the DOM event handler; and   *)
(* of the reconciler the edit scripts come from.                           *)
(***************************************************************************)
EXTENDS Integers, Sequences, FiniteSets, TLC

VARIABLES
    components,   \* Arena<Scope>: [items, generation, free]
    base_scope,   \* Index of the root component
    event_queue,  \* Vec<LifecycleEvent>, the last element is the top
    root_props,   \* P
    lastOp,       \* history: the operation that made the last step
    ret,          \* history: what the last progress() returned
    popped,       \* history: the event the last progress() popped
    issued,       \* history: every Index the arena has handed out
    pushed,       \* history: number of events the components have pushed
    seen,         \* history: [index, tag] of the events processed with Ok
    script,       \* apply_edits: the Vec<DomEdit> it was called with
    edits,        \* apply_edits: the edits the drain has not yielded yet
    interpreter,  \* apply_edits: the calls made on self.interpreter, in order
    old_tree,     \* reconciler: the previous tree of the scope
    new_tree,     \* reconciler: the tree just rendered
    diff_out,     \* reconciler: the edit script and the events of the pass
    event,        \* handler: the web_sys::Event, [typ, native]
    path,         \* handler: the event target and its ancestors, target first
    target,       \* handler: the position in path of `target`
    pc,           \* handler: where the callback stands
    decoded,      \* handler: the anyhow::Result<UserEvent> the loop broke with
    sent,         \* handler: the UserEvents given to sender_callback
    prevented     \* handler: the prevent_default() calls made on the event

\* the state of a VirtualDom
domVars == <<components, base_scope, event_queue, root_props,
             lastOp, ret, popped, issued, pushed, seen>>

\* the state of an apply_edits call
editVars == <<script, edits, interpreter>>

\* the state of a reconciler pass
diffVars == <<old_tree, new_tree, diff_out>>

\* the state of a run of the event callback
handlerVars == <<event, path, target, pc, decoded, sent, prevented>>

vars == <<domVars, editVars, diffVars, handlerVars>>

(***************************************************************************)
(* Bounds                                                                  *)
(***************************************************************************)
\* scopes ever inserted into the arena, the root included
MaxScopes == 3
\* events pushed onto the queue by components, besides the first Mount
MaxPushes == 2

(***************************************************************************)
(* Data                                                                    *)
(***************************************************************************)
\* Option<Index>::None
None == [index |-> -1, generation |-> -1]

\* generational_arena::Index
Index(i, g) == [index |-> i, generation |-> g]

\* Scope::new(component, parent); only the parent link is modelled
ScopeNew(parent) == [parent |-> parent]

\* Option<&Scope>::None, the result of a failed arena lookup
NoScope == [parent |-> [index |-> -2, generation |-> -2]]

\* LifecycleType
LifecycleTypes == {"Mount", "PropsChanged", "Mounted", "Removed", "Messaged"}

\* LifecycleType::Mount { to, under }
MountType(to, under) == [tag |-> "Mount", to |-> to, under |-> under]

\* the field-less variants of LifecycleType
PlainType(tag) == [tag |-> tag, to |-> None, under |-> 0]

\* LifecycleEvent { index, event_type }
LifecycleEvent(index, event_type) == [index |-> index, event_type |-> event_type]

\* LifecycleEvent::mount with the container taken from `which` (a defect)
mountToSelf(which, to, under) == LifecycleEvent(which, MountType(which, under))

\* LifecycleEvent::mount(which, to, under)
mount(which, to, under) == LifecycleEvent(which, MountType(to, under))

\* Option<LifecycleEvent>::None, what pop() gives on an empty Vec
NoEvent == LifecycleEvent(None, PlainType("None"))

(***************************************************************************)
(* The generational arena (generational_arena::Arena as used by the code)  *)
(***************************************************************************)
\* a vacant slot
FreeEntry == [occupied |-> FALSE, generation |-> 0, value |-> NoScope]

\* an occupied slot, stamped with the arena generation at insertion
OccupiedEntry(g, v) == [occupied |-> TRUE, generation |-> g, value |-> v]

\* Arena::new()
ArenaNew == [items |-> <<>>, generation |-> 0, free |-> <<>>]

\* Arena::insert(value): reuse the most recently vacated slot, else grow
ArenaInsert(a, v) ==
    IF a.free # <<>>
    THEN LET s == Head(a.free)
         IN [arena |-> [a EXCEPT !.items[s + 1] = OccupiedEntry(a.generation, v),
                                 !.free = Tail(a.free)],
             index |-> Index(s, a.generation)]
    ELSE [arena |-> [a EXCEPT !.items = Append(a.items, OccupiedEntry(a.generation, v))],
          index |-> Index(Len(a.items), a.generation)]

\* Arena::contains(index): slot occupied and generations equal
ArenaContains(a, i) ==
    /\ i.index >= 0
    /\ i.index < Len(a.items)
    /\ a.items[i.index + 1].occupied
    /\ a.items[i.index + 1].generation = i.generation

\* Arena::get(index)
ArenaGet(a, i) ==
    IF ArenaContains(a, i) THEN a.items[i.index + 1].value ELSE NoScope

\* Arena::remove(index) with the generation left as it was (a defect)
ArenaRemoveNoBump(a, i) ==
    IF ArenaContains(a, i)
    THEN [a EXCEPT !.items[i.index + 1] = FreeEntry,
                   !.free = <<i.index>> \o a.free]
    ELSE a

\* Arena::remove(index): vacate the slot and bump the arena generation
ArenaRemove(a, i) ==
    IF ArenaContains(a, i)
    THEN [a EXCEPT !.items[i.index + 1] = FreeEntry,
                   !.generation = a.generation + 1,
                   !.free = <<i.index>> \o a.free]
    ELSE a

\* the indices that are valid in the arena
Live(a) == {i \in issued : ArenaContains(a, i)}

(***************************************************************************)
(* The event queue                                                         *)
(***************************************************************************)
\* Vec::pop taking the oldest element instead (a defect)
VecPopFront(q) == [event |-> Head(q), rest |-> Tail(q)]

\* Vec::pop on a non-empty Vec: the last element, and what stays
VecPop(q) == [event |-> q[Len(q)], rest |-> SubSeq(q, 1, Len(q) - 1)]

(***************************************************************************)
(* VirtualDom::progress                                                    *)
(***************************************************************************)
\* the match on event_type with the bodies of the Mounted and the Removed
\* arms exchanged (a defect)
DispatchArmsSwapped(comps, index, event_type) ==
    CASE event_type.tag = "Mount" -> comps
      [] event_type.tag = "PropsChanged" -> comps
      [] event_type.tag = "Mounted" -> ArenaRemove(comps, index)
      [] event_type.tag = "Removed" -> comps
      [] event_type.tag = "Messaged" -> comps

\* the match on event_type: what it does to the arena
Dispatch(comps, index, event_type) ==
    CASE event_type.tag = "Mount" -> comps
      [] event_type.tag = "PropsChanged" -> comps
      [] event_type.tag = "Mounted" -> comps
      [] event_type.tag = "Removed" -> ArenaRemove(comps, index)
      [] event_type.tag = "Messaged" -> comps

\* progress() that looks the scope up before it pops (a defect)
ProgressStepRetry(comps, q) ==
    IF q = <<>>
    THEN [components |-> comps, event_queue |-> q, ret |-> "Err", popped |-> NoEvent]
    ELSE LET p == VecPop(q)
         IN IF ArenaGet(comps, p.event.index) = NoScope
            THEN [components |-> comps, event_queue |-> q,
                  ret |-> "Err", popped |-> p.event]
            ELSE [components |-> Dispatch(comps, p.event.index, p.event.event_type),
                  event_queue |-> p.rest, ret |-> "Ok", popped |-> p.event]

\* progress(): pop, look the scope up, dispatch; Result<(), ()>
ProgressStep(comps, q) ==
    IF q = <<>>
    THEN [components |-> comps, event_queue |-> q, ret |-> "Err", popped |-> NoEvent]
    ELSE LET p == VecPop(q)
         IN IF ArenaGet(comps, p.event.index) = NoScope
            THEN [components |-> comps, event_queue |-> p.rest,
                  ret |-> "Err", popped |-> p.event]
            ELSE [components |-> Dispatch(comps, p.event.index, p.event.event_type),
                  event_queue |-> p.rest, ret |-> "Ok", popped |-> p.event]

\* the history kept of the events processed with Ok
SeenTags == {"Mount", "Mounted", "Removed"}

Progress ==
    LET r == ProgressStep(components, event_queue)
    IN /\ components' = r.components
       /\ event_queue' = r.event_queue
       /\ ret' = r.ret
       /\ popped' = r.popped
       /\ lastOp' = "progress"
       /\ seen' = IF r.ret = "Ok" /\ r.popped.event_type.tag \in SeenTags
                  THEN seen \cup {[index |-> r.popped.index,
                                   tag |-> r.popped.event_type.tag]}
                  ELSE seen
       /\ UNCHANGED <<base_scope, root_props, issued, pushed>>
       /\ UNCHANGED <<editVars, diffVars, handlerVars>>

(***************************************************************************)
(* VirtualDom::progess_completely: the body is empty                        *)
(***************************************************************************)
ProgessCompletely ==
    /\ lastOp' = "progess_completely"
    /\ ret' = "None"
    /\ popped' = NoEvent
    /\ UNCHANGED <<components, base_scope, event_queue, root_props, issued, pushed, seen>>
    /\ UNCHANGED <<editVars, diffVars, handlerVars>>

(***************************************************************************)
(* VirtualDom::update_props: the body is empty, new_props is dropped        *)
(***************************************************************************)
\* the property values a caller can hand over
Props == {"props", "new_props"}

UpdateProps ==
    /\ \E new_props \in Props :
          /\ lastOp' = "update_props"
          /\ ret' = "None"
          /\ popped' = NoEvent
    /\ UNCHANGED <<components, base_scope, event_queue, root_props, issued, pushed, seen>>
    /\ UNCHANGED <<editVars, diffVars, handlerVars>>

(***************************************************************************)
(* The components: they are arena allocated and generate lifecycle events  *)
(***************************************************************************)
\* the events a component can generate
EventTypes ==
    {MountType(to, 0) : to \in {None, base_scope}}
        \cup {PlainType(t) : t \in LifecycleTypes \ {"Mount"}}

\* a child component is allocated in the arena under a live parent
InsertScope ==
    /\ Cardinality(issued) < MaxScopes
    /\ \E parent \in Live(components) :
          LET r == ArenaInsert(components, ScopeNew(parent))
          IN /\ components' = r.arena
             /\ issued' = issued \cup {r.index}
    /\ lastOp' = "insert"
    /\ ret' = "None"
    /\ popped' = NoEvent
    /\ UNCHANGED <<base_scope, event_queue, root_props, pushed, seen>>
    /\ UNCHANGED <<editVars, diffVars, handlerVars>>

\* a component generates a lifecycle event for a scope index it holds
PushEvent ==
    /\ pushed < MaxPushes
    /\ pushed' = pushed + 1
    /\ \E index \in issued, event_type \in EventTypes :
          event_queue' = Append(event_queue, LifecycleEvent(index, event_type))
    /\ lastOp' = "push"
    /\ ret' = "None"
    /\ popped' = NoEvent
    /\ UNCHANGED <<components, base_scope, root_props, issued, seen>>
    /\ UNCHANGED <<editVars, diffVars, handlerVars>>

(***************************************************************************)
(* VirtualDom::new_with_props and the specification                        *)
(***************************************************************************)
\* the root properties handed to new_with_props
RootProps == "props"

\* VirtualDom::new_with_props(root, root_props)
NewWithProps ==
    LET r == ArenaInsert(ArenaNew, ScopeNew(None))
    IN /\ components = r.arena
       /\ base_scope = r.index
       /\ event_queue = <<mount(r.index, None, 0)>>
       /\ root_props = RootProps
       /\ lastOp = "new_with_props"
       /\ ret = "None"
       /\ popped = NoEvent
       /\ issued = {r.index}
       /\ pushed = 0
       /\ seen = {}

\* no apply_edits call is under way
NoEdits ==
    /\ script = <<>>
    /\ edits = <<>>
    /\ interpreter = <<>>

\* no reconciler pass is under way
NoDiff ==
    /\ old_tree = "none"
    /\ new_tree = "none"
    /\ diff_out = "none"

\* no DOM event is being handled
NoHandler ==
    /\ event = "none"
    /\ path = <<>>
    /\ target = 0
    /\ pc = "idle"
    /\ decoded = "none"
    /\ sent = <<>>
    /\ prevented = <<>>

Init ==
    /\ NewWithProps
    /\ NoEdits
    /\ NoDiff
    /\ NoHandler

Next ==
    \/ Progress
    \/ ProgessCompletely
    \/ UpdateProps
    \/ InsertScope
    \/ PushEvent

Spec == Init /\ [][Next]_vars

(***************************************************************************)
(* Properties                                                              *)
(***************************************************************************)
\* the event on top of the queue, the one progress() pops
Top(q) == q[Len(q)]

\* the queue below its top
Below(q) == SubSeq(q, 1, Len(q) - 1)

\* the indices whose Removed event has been processed
RemovedIndices == {i \in issued : [index |-> i, tag |-> "Removed"] \in seen}

\* d is a scope below s: the parent links of the arena lead from d to s
RECURSIVE IsDescendant(_, _, _, _)
IsDescendant(a, d, s, fuel) ==
    /\ fuel > 0
    /\ ArenaContains(a, d)
    /\ ArenaGet(a, d).parent # None
    /\ \/ ArenaGet(a, d).parent = s
       \/ IsDescendant(a, ArenaGet(a, d).parent, s, fuel - 1)

\* C1: a progress() on a non-empty queue removes exactly one event, the most
\* recently pushed one, and the events below it stay in their order; a
\* progress() on an empty queue fails and changes neither queue nor arena.
C1_ProgressPopsLast ==
    [][lastOp' = "progress" =>
          IF event_queue = <<>>
          THEN /\ ret' = "Err"
               /\ event_queue' = event_queue
               /\ components' = components
          ELSE /\ Len(event_queue') = Len(event_queue) - 1
               /\ popped' = Top(event_queue)
               /\ event_queue' = Below(event_queue)]_vars

\* a progress() has popped the top of a queue of three different events
C1_Witness ==
    /\ lastOp = "progress"
    /\ popped # NoEvent
    /\ Len(event_queue) >= 2
    /\ event_queue[1] # event_queue[2]
    /\ popped # event_queue[2]

\* C2: the root scope is never removed: base_scope is a valid index of the
\* arena in every reachable state, also after a Removed event for it.
C2_RootNeverRemoved == ArenaContains(components, base_scope)

\* C3: once a Removed event for index i has been processed, i is invalid for
\* every later lookup, also when its slot holds a new scope, and a progress()
\* that pops an event for i fails and changes no scope.
C3_RemovedStaysInvalid ==
    [][/\ \A i \in RemovedIndices : ~ArenaContains(components', i)
       /\ (/\ lastOp' = "progress"
           /\ event_queue # <<>>
           /\ Top(event_queue).index \in RemovedIndices)
          => /\ ret' = "Err"
             /\ components' = components]_vars

\* a progress() failed on an event for a removed index whose slot is in use again
C3_Witness ==
    /\ lastOp = "progress"
    /\ ret = "Err"
    /\ popped # NoEvent
    /\ popped.index \in RemovedIndices
    /\ components.items[popped.index.index + 1].occupied

\* C4: progress() reports the outcome of the empty queue only when the queue
\* was empty at the call; a failed lookup is a different outcome.
C4_QueueEmptyOnlyWhenEmpty ==
    [][(/\ lastOp' = "progress"
        /\ ret' = ProgressStep(components, <<>>).ret)
          => event_queue = <<>>]_vars

\* C5: an event whose target is not valid is dropped, no scope is changed,
\* and the call after the failure pops and processes the next event.
C5_DanglingEventDropped ==
    [][/\ (/\ lastOp' = "progress"
           /\ event_queue # <<>>
           /\ ~ArenaContains(components, Top(event_queue).index))
          => /\ ret' = "Err"
             /\ event_queue' = Below(event_queue)
             /\ components' = components
       /\ (/\ lastOp = "progress" /\ ret = "Err" /\ popped # NoEvent
           /\ lastOp' = "progress"
           /\ event_queue # <<>>)
          => /\ popped' = Top(event_queue)
             /\ ArenaContains(components, Top(event_queue).index) => ret' = "Ok"]_vars

\* a progress() dropped an event for an invalid index while events were pending
C5_Witness ==
    /\ lastOp = "progress"
    /\ ret = "Err"
    /\ popped # NoEvent
    /\ ~ArenaContains(components, popped.index)
    /\ event_queue # <<>>
    /\ ArenaContains(components, Top(event_queue).index)

\* C6: processing a Removed event for s removes s and every descendant of s
\* from the arena.
C6_RemovedRemovesDescendants ==
    [][(/\ lastOp' = "progress"
        /\ ret' = "Ok"
        /\ popped'.event_type.tag = "Removed")
          => \A d \in issued :
                (d = popped'.index
                    \/ IsDescendant(components, d, popped'.index, Cardinality(issued)))
                  => ~ArenaContains(components', d)]_vars

\* C7: processing a Mount event for s pushes a Mounted event for s, and a
\* Mount event for every child of s, on top of the events that were below.
C7_MountPushesMounted ==
    [][(/\ lastOp' = "progress"
        /\ ret' = "Ok"
        /\ popped'.event_type.tag = "Mount")
          => /\ Len(event_queue') >= Len(event_queue)
             /\ SubSeq(event_queue', 1, Len(event_queue) - 1) = Below(event_queue)
             /\ \E k \in Len(event_queue)..Len(event_queue') :
                   event_queue'[k] = LifecycleEvent(popped'.index, PlainType("Mounted"))
             /\ \A c \in issued :
                   (/\ ArenaContains(components, c)
                    /\ ArenaGet(components, c).parent = popped'.index)
                     => \E k \in Len(event_queue)..Len(event_queue') :
                           /\ event_queue'[k].index = c
                           /\ event_queue'[k].event_type.tag = "Mount"]_vars

\* C8: a Mounted event for index i is never processed before a Mount event
\* for i has been processed.
C8_MountedAfterMount ==
    [][(/\ lastOp' = "progress"
        /\ ret' = "Ok"
        /\ popped'.event_type.tag = "Mounted")
          => [index |-> popped'.index, tag |-> "Mount"] \in seen]_vars

\* C9: a PropsChanged event is never processed for a scope that is still
\* Mounting, and per scope the order is Mount, PropsChanged, Removed.
C9_PropsChangedAfterMounted ==
    [][/\ (/\ lastOp' = "progress"
           /\ ret' = "Ok"
           /\ popped'.event_type.tag = "PropsChanged")
          => /\ [index |-> popped'.index, tag |-> "Mount"] \in seen
             /\ [index |-> popped'.index, tag |-> "Mounted"] \in seen
       /\ (/\ lastOp' = "progress"
           /\ ret' = "Ok"
           /\ popped'.event_type.tag = "Removed")
          => [index |-> popped'.index, tag |-> "Mount"] \in seen]_vars

\* C10: when progess_completely() returns the event queue is empty.
C10_ProgressCompletelyDrains ==
    lastOp = "progess_completely" => event_queue = <<>>

\* the mount status of the scope at index i, as the processed events give it
MountStatus(i) ==
    IF [index |-> i, tag |-> "Removed"] \in seen THEN "Unmounting"
    ELSE IF [index |-> i, tag |-> "Mounted"] \in seen THEN "Mounted"
    ELSE IF [index |-> i, tag |-> "Mount"] \in seen THEN "Mounting"
    ELSE "Unmounted"

\* the scopes reachable from base_scope through children
Reachable(a) ==
    {i \in Live(a) : i = base_scope \/ IsDescendant(a, i, base_scope, Cardinality(issued))}

\* C11: once progress() has drained the queue, the root scope and every scope
\* reachable from base_scope has mount status Mounted.
C11_DrainedMeansMounted ==
    (lastOp = "progress" /\ event_queue = <<>>)
        => \A i \in Reachable(components) : MountStatus(i) = "Mounted"

\* C12: update_props enqueues a lifecycle event targeting base_scope, so the
\* queue is not empty after the call.
C12_UpdatePropsEnqueues ==
    lastOp = "update_props"
        => /\ event_queue # <<>>
           /\ Top(event_queue).index = base_scope

\* C13: a Mount event whose container `to` is stale or not Mounted fails and
\* leaves every scope as it was.
C13_MountUnderUnmountedFails ==
    [][(/\ lastOp' = "progress"
        /\ event_queue # <<>>
        /\ ArenaContains(components, Top(event_queue).index)
        /\ Top(event_queue).event_type.tag = "Mount"
        /\ Top(event_queue).event_type.to # None
        /\ \/ ~ArenaContains(components, Top(event_queue).event_type.to)
           \/ MountStatus(Top(event_queue).event_type.to) # "Mounted")
          => /\ ret' = "Err"
             /\ components' = components]_vars

\* number of scopes the arena holds
ArenaLen(a) == Cardinality({k \in 1..Len(a.items) : a.items[k].occupied})

\* C16: right after new_with_props the arena holds exactly one scope, the
\* root, without a parent; base_scope is its valid index; the queue holds
\* exactly one event, a Mount for base_scope with no container at position 0.
C16_AfterNewWithProps ==
    lastOp = "new_with_props"
        => /\ ArenaLen(components) = 1
           /\ ArenaContains(components, base_scope)
           /\ ArenaGet(components, base_scope).parent = None
           /\ Len(event_queue) = 1
           /\ event_queue[1].index = base_scope
           /\ event_queue[1].event_type.tag = "Mount"
           /\ event_queue[1].event_type.to = None
           /\ event_queue[1].event_type.under = 0

\* the state new_with_props returns
C16_Witness ==
    /\ lastOp = "new_with_props"
    /\ event_queue # <<>>
    /\ ArenaLen(components) > 0

(***************************************************************************)
(* WebsysDom::apply_edits                                                  *)
(***************************************************************************)
\* edits in one call of apply_edits
MaxEdits == 2

\* the variants of DomEdit
DomEditKinds ==
    {"PushRoot", "PopRoot", "AppendChildren", "ReplaceWith", "InsertAfter",
     "InsertBefore", "Remove", "CreateElement", "CreateElementNs",
     "CreatePlaceholder", "NewEventListener", "RemoveEventListener",
     "RemoveAttribute", "CreateTextNode", "SetText", "SetAttribute"}

\* the fields a variant of DomEdit carries
EditFields(kind) ==
    CASE kind = "PushRoot" -> {"root"}
      [] kind = "PopRoot" -> {}
      [] kind = "AppendChildren" -> {"many"}
      [] kind \in {"ReplaceWith", "InsertAfter", "InsertBefore"} -> {"root", "many"}
      [] kind \in {"Remove", "CreatePlaceholder"} -> {"root"}
      [] kind = "CreateElement" -> {"name", "root"}
      [] kind = "CreateElementNs" -> {"name", "root", "ns"}
      [] kind \in {"NewEventListener", "RemoveEventListener"} -> {"name", "root"}
      [] kind = "RemoveAttribute" -> {"root", "name", "ns"}
      [] kind \in {"CreateTextNode", "SetText"} -> {"name", "root"}
      [] kind = "SetAttribute" -> {"root", "name", "value", "ns"}

\* a DomEdit; a field its variant does not carry holds 0 or ""
DomEdit(kind, root, many, name, value, ns) ==
    [kind |-> kind, root |-> root, many |-> many, name |-> name,
     value |-> value, ns |-> ns]

\* the element ids and the counts the edits of the model carry
EditIds == {1, 2}

\* the edits the model feeds to apply_edits
DomEdits ==
    {DomEdit(kind,
             IF "root" \in EditFields(kind) THEN root ELSE 0,
             IF "many" \in EditFields(kind) THEN many ELSE 0,
             IF "name" \in EditFields(kind) THEN "a" ELSE "",
             IF "value" \in EditFields(kind) THEN "v" ELSE "",
             IF "ns" \in EditFields(kind) THEN "svg" ELSE "") :
        kind \in DomEditKinds, root \in EditIds, many \in EditIds}

\* serde_wasm_bindgen::to_value(text): the JsValue of a string
ToValue(text) == [js |-> text]

\* no JsValue argument
NoValue == [js |-> ""]

\* dioxus_html::event_bubbles(event_name), as handed to the interpreter
EventBubbles(name) == "bubbles(" \o name \o ")"

\* a call on the interpreter: the method and its arguments
Call(op, root, many, name, value, ns, handler, bubbles) ==
    [op |-> op, root |-> root, many |-> many, name |-> name, value |-> value,
     ns |-> ns, handler |-> handler, bubbles |-> bubbles]

\* the match of apply_edits with InsertAfter and InsertBefore exchanged (a defect)
InterpreterCallSwapped(edit) ==
    CASE edit.kind = "InsertAfter" ->
            Call("InsertBefore", edit.root, edit.many, "", NoValue, "", FALSE, "")
      [] edit.kind = "InsertBefore" ->
            Call("InsertAfter", edit.root, edit.many, "", NoValue, "", FALSE, "")
      [] OTHER -> Call(edit.kind, edit.root, edit.many, "", NoValue, "", FALSE, "")

\* the match of apply_edits: the interpreter call made for one edit
InterpreterCall(edit) ==
    CASE edit.kind = "PushRoot" ->
            Call("PushRoot", edit.root, 0, "", NoValue, "", FALSE, "")
      [] edit.kind = "PopRoot" ->
            Call("PopRoot", 0, 0, "", NoValue, "", FALSE, "")
      [] edit.kind = "AppendChildren" ->
            Call("AppendChildren", 0, edit.many, "", NoValue, "", FALSE, "")
      [] edit.kind = "ReplaceWith" ->
            Call("ReplaceWith", edit.root, edit.many, "", NoValue, "", FALSE, "")
      [] edit.kind = "InsertAfter" ->
            Call("InsertAfter", edit.root, edit.many, "", NoValue, "", FALSE, "")
      [] edit.kind = "InsertBefore" ->
            Call("InsertBefore", edit.root, edit.many, "", NoValue, "", FALSE, "")
      [] edit.kind = "Remove" ->
            Call("Remove", edit.root, 0, "", NoValue, "", FALSE, "")
      [] edit.kind = "CreateElement" ->
            Call("CreateElement", edit.root, 0, edit.name, NoValue, "", FALSE, "")
      [] edit.kind = "CreateElementNs" ->
            Call("CreateElementNs", edit.root, 0, edit.name, NoValue, edit.ns, FALSE, "")
      [] edit.kind = "CreatePlaceholder" ->
            Call("CreatePlaceholder", edit.root, 0, "", NoValue, "", FALSE, "")
      [] edit.kind = "NewEventListener" ->
            Call("NewEventListener", edit.root, 0, edit.name, NoValue, "", TRUE,
                 EventBubbles(edit.name))
      [] edit.kind = "RemoveEventListener" ->
            Call("RemoveEventListener", edit.root, 0, edit.name, NoValue, "", FALSE,
                 EventBubbles(edit.name))
      [] edit.kind = "RemoveAttribute" ->
            Call("RemoveAttribute", edit.root, 0, edit.name, NoValue, edit.ns, FALSE, "")
      [] edit.kind = "CreateTextNode" ->
            Call("CreateTextNode", edit.root, 0, "", ToValue(edit.name), "", FALSE, "")
      [] edit.kind = "SetText" ->
            Call("SetText", edit.root, 0, "", ToValue(edit.name), "", FALSE, "")
      [] edit.kind = "SetAttribute" ->
            Call("SetAttribute", edit.root, 0, edit.name, ToValue(edit.value), edit.ns,
                 FALSE, "")

\* the sequences over S of length at most n
SeqsUpTo(S, n) == UNION {[1..k -> S] : k \in 0..n}

\* apply_edits(edits) is called
ApplyEditsInit ==
    /\ NewWithProps
    /\ NoDiff
    /\ NoHandler
    /\ script \in SeqsUpTo(DomEdits, MaxEdits)
    /\ edits = script
    /\ interpreter = <<>>

\* one turn of the loop over edits.drain(..)
ApplyEdit ==
    /\ edits # <<>>
    /\ interpreter' = Append(interpreter, InterpreterCall(Head(edits)))
    /\ edits' = Tail(edits)
    /\ UNCHANGED <<script, domVars, diffVars, handlerVars>>

SpecEdits == ApplyEditsInit /\ [][ApplyEdit]_vars

\* C14: apply_edits replays the script in sequence: the k-th interpreter call
\* is the operation of the kind of the k-th edit with its element id and
\* count, and when the loop ends there are as many calls as edits.
C14_EditsReplayedInOrder ==
    /\ Len(interpreter) + Len(edits) = Len(script)
    /\ \A k \in 1..Len(interpreter) :
          /\ interpreter[k].op = script[k].kind
          /\ interpreter[k].op \in DomEditKinds
          /\ interpreter[k].root = script[k].root
          /\ interpreter[k].many = script[k].many
    /\ edits = <<>> => Len(interpreter) = Len(script)

\* apply_edits has replayed a script of two edits of different kinds
C14_Witness ==
    /\ edits = <<>>
    /\ Len(script) >= 2
    /\ Len(interpreter) = Len(script)
    /\ script[1].kind = "InsertAfter"
    /\ script[2].kind # script[1].kind

(***************************************************************************)
(* The reconciler: diff of the previous tree against the rendered tree     *)
(***************************************************************************)
\* children of one node
MaxChildren == 2

\* a VirtualNode; a field its variant does not carry holds "" or <<>> or 0
VNode(kind, text, tag, attrs, listeners, children, key, scope, props) ==
    [kind |-> kind, text |-> text, tag |-> tag, attrs |-> attrs,
     listeners |-> listeners, children |-> children, key |-> key,
     scope |-> scope, props |-> props]

\* VirtualNode::Text
TextNode(text, key) == VNode("Text", text, "", <<>>, <<>>, <<>>, key, 0, "")

\* VirtualNode::Placeholder
PlaceholderNode == VNode("Placeholder", "", "", <<>>, <<>>, <<>>, "", 0, "")

\* VirtualNode::Component, mounted as the scope `scope`
ComponentNode(scope, props) == VNode("Component", "", "", <<>>, <<>>, <<>>, "", scope, props)

\* VirtualNode::Element
ElementNode(tag, attrs, listeners, children) ==
    VNode("Element", "", tag, attrs, listeners, children, "", 0, "")

\* VirtualNode::Fragment
FragmentNode(children) == VNode("Fragment", "", "", <<>>, <<>>, children, "", 0, "")

\* one attribute of an Element
Attr(name, value) == [name |-> name, value |-> value]

\* the nodes without children the model builds trees from
LeafNodes ==
    {TextNode("hello", ""), TextNode("world", "k"),
     ComponentNode(1, "p"), ComponentNode(1, "q")}

\* sibling lists: keys, where present, are unique among siblings
ChildLists ==
    {c \in SeqsUpTo(LeafNodes, MaxChildren) :
        \A i, j \in 1..Len(c) : (i # j /\ c[i].key # "") => c[i].key # c[j].key}

\* the trees the model diffs
Trees ==
    LeafNodes \cup {PlaceholderNode}
        \cup {FragmentNode(c) : c \in ChildLists}
        \cup {ElementNode("div", a, l, c) :
                a \in {<<>>, <<Attr("class", "x")>>, <<Attr("class", "y")>>},
                l \in {<<>>, <<"click">>},
                c \in ChildLists}
        \cup {ElementNode("p", <<>>, <<>>, <<>>)}

\* concatenation of a sequence of sequences
RECURSIVE Flatten(_)
Flatten(ss) == IF ss = <<>> THEN <<>> ELSE Head(ss) \o Flatten(Tail(ss))

\* an EditOp emitted by the pass
EmitEdit(edit) == [is_edit |-> TRUE, edit |-> edit, event |-> NoEvent]

\* a lifecycle event enqueued by the pass
EmitEvent(ev) == [is_edit |-> FALSE, edit |-> DomEdit("", 0, 0, "", "", ""), event |-> ev]

\* the ElementId of the child at position pos of the node with id parent
ChildId(parent, pos) == parent * (MaxChildren + 2) + pos

\* the ScopeIndex of a mounted Component node
ScopeIndexOf(node) == Index(node.scope, 0)

\* create the subtree of a new node, its root getting the ElementId id
RECURSIVE CreateNode(_, _)
CreateNode(node, id) ==
    CASE node.kind = "Text" ->
            <<EmitEdit(DomEdit("CreateTextNode", id, 0, node.text, "", ""))>>
      [] node.kind = "Placeholder" ->
            <<EmitEdit(DomEdit("CreatePlaceholder", id, 0, "", "", ""))>>
      [] node.kind = "Component" ->
            <<EmitEvent(mount(ScopeIndexOf(node), None, 0))>>
      [] node.kind = "Fragment" ->
            Flatten([j \in 1..Len(node.children) |->
                        CreateNode(node.children[j], ChildId(id, j))])
      [] node.kind = "Element" ->
            <<EmitEdit(DomEdit("CreateElement", id, 0, node.tag, "", ""))>>
            \o [j \in 1..Len(node.attrs) |->
                   EmitEdit(DomEdit("SetAttribute", id, 0, node.attrs[j].name,
                                    node.attrs[j].value, ""))]
            \o [j \in 1..Len(node.listeners) |->
                   EmitEdit(DomEdit("NewEventListener", id, 0, node.listeners[j], "", ""))]
            \o Flatten([j \in 1..Len(node.children) |->
                           CreateNode(node.children[j], ChildId(id, j))])
            \o (IF node.children = <<>> THEN <<>>
                ELSE <<EmitEdit(DomEdit("AppendChildren", 0, Len(node.children), "", "", ""))>>)

\* remove an old node: its ElementId is freed, a Component scope is unmounted
RemoveNode(node, id) ==
    IF node.kind = "Component"
    THEN <<EmitEvent(LifecycleEvent(ScopeIndexOf(node), PlainType("Removed")))>>
    ELSE <<EmitEdit(DomEdit("Remove", id, 0, "", "", ""))>>

\* the value of the attribute `name` in attrs, "" when absent
AttrValue(attrs, name) ==
    IF \E k \in 1..Len(attrs) : attrs[k].name = name
    THEN attrs[CHOOSE k \in 1..Len(attrs) : attrs[k].name = name].value
    ELSE ""

\* is there an attribute `name` in attrs
HasAttr(attrs, name) == \E k \in 1..Len(attrs) : attrs[k].name = name

\* attribute sets diffed by name
DiffAttrs(old, new, id) ==
    Flatten([j \in 1..Len(new) |->
                IF HasAttr(old, new[j].name) /\ AttrValue(old, new[j].name) = new[j].value
                THEN <<>>
                ELSE <<EmitEdit(DomEdit("SetAttribute", id, 0, new[j].name,
                                        new[j].value, ""))>>])
    \o Flatten([j \in 1..Len(old) |->
                   IF HasAttr(new, old[j].name) THEN <<>>
                   ELSE <<EmitEdit(DomEdit("RemoveAttribute", id, 0, old[j].name, "", ""))>>])

\* is the event name e in the listener set ls
HasListener(ls, e) == \E k \in 1..Len(ls) : ls[k] = e

\* listener sets diffed by event name
DiffListeners(old, new, id) ==
    Flatten([j \in 1..Len(new) |->
                IF HasListener(old, new[j]) THEN <<>>
                ELSE <<EmitEdit(DomEdit("NewEventListener", id, 0, new[j], "", ""))>>])
    \o Flatten([j \in 1..Len(old) |->
                   IF HasListener(new, old[j]) THEN <<>>
                   ELSE <<EmitEdit(DomEdit("RemoveEventListener", id, 0, old[j], "", ""))>>])

\* the old sibling matched with the new sibling j: by key, else by position;
\* 0 when there is none
MatchChild(olds, news, j) ==
    IF news[j].key # ""
    THEN IF \E i \in 1..Len(olds) : olds[i].key = news[j].key
         THEN CHOOSE i \in 1..Len(olds) : olds[i].key = news[j].key
         ELSE 0
    ELSE IF j <= Len(olds) /\ olds[j].key = "" THEN j ELSE 0

\* a diff that re-creates every node it visits (a defect)
DiffNodeRecreate(old, new, id) == CreateNode(new, id) \o RemoveNode(old, id)

\* the diff of one old node against one new node
RECURSIVE DiffNode(_, _, _)
DiffNode(old, new, id) ==
    IF old.kind # new.kind \/ (old.kind = "Element" /\ old.tag # new.tag)
    THEN CreateNode(new, id)
            \o (IF old.kind = "Component"
                THEN RemoveNode(old, id)
                ELSE <<EmitEdit(DomEdit("ReplaceWith", id, 1, "", "", ""))>>)
    ELSE LET DiffChildren ==
                 Flatten([j \in 1..Len(new.children) |->
                     LET i == MatchChild(old.children, new.children, j)
                     IN IF i = 0
                        THEN CreateNode(new.children[j], ChildId(id, j))
                                \o <<EmitEdit(DomEdit(IF j = 1 THEN "InsertBefore"
                                                       ELSE "InsertAfter",
                                                       ChildId(id, j), 1, "", "", ""))>>
                        ELSE (IF i = j THEN <<>>
                              ELSE <<EmitEdit(DomEdit("InsertBefore", ChildId(id, i), 1,
                                                      "", "", ""))>>)
                                \o DiffNode(old.children[i], new.children[j], ChildId(id, i))])
                 \o Flatten([i \in 1..Len(old.children) |->
                        IF \E j \in 1..Len(new.children) :
                              MatchChild(old.children, new.children, j) = i
                        THEN <<>>
                        ELSE RemoveNode(old.children[i], ChildId(id, i))])
         IN CASE new.kind = "Text" ->
                    IF old.text # new.text
                    THEN <<EmitEdit(DomEdit("SetText", id, 0, new.text, "", ""))>>
                    ELSE <<>>
              [] new.kind = "Placeholder" -> <<>>
              [] new.kind = "Component" ->
                    IF old.scope = new.scope
                    THEN IF old.props # new.props
                         THEN <<EmitEvent(LifecycleEvent(ScopeIndexOf(new),
                                                         PlainType("PropsChanged")))>>
                         ELSE <<>>
                    ELSE RemoveNode(old, id) \o CreateNode(new, id)
              [] new.kind = "Fragment" -> DiffChildren
              [] new.kind = "Element" ->
                    DiffAttrs(old.attrs, new.attrs, id)
                        \o DiffListeners(old.listeners, new.listeners, id)
                        \o DiffChildren

\* the ElementId of the root node of a scope
RootId == 1

\* no pass has run on the two trees yet
NoDiffOut == [done |-> FALSE, items |-> <<>>]

\* the EditScript of a pass
EditScript(out) == SelectSeq(out.items, LAMBDA x : x.is_edit)

\* the lifecycle events a pass enqueued
DiffEvents(out) == SelectSeq(out.items, LAMBDA x : ~x.is_edit)

\* a scope has rendered new_tree and holds old_tree from the pass before
DiffInit ==
    /\ NewWithProps
    /\ NoEdits
    /\ NoHandler
    /\ old_tree \in Trees
    /\ new_tree \in Trees
    /\ diff_out = NoDiffOut

\* the reconciler runs on the two trees
RunDiff ==
    /\ ~diff_out.done
    /\ diff_out' = [done |-> TRUE, items |-> DiffNode(old_tree, new_tree, RootId)]
    /\ UNCHANGED <<old_tree, new_tree, domVars, editVars, handlerVars>>

SpecDiff == DiffInit /\ [][RunDiff]_vars

\* C15: reconciling a tree against an identical copy of it emits no EditOp
\* and enqueues no lifecycle event.
C15_DiffIdempotent ==
    (diff_out.done /\ old_tree = new_tree)
        => /\ EditScript(diff_out) = <<>>
           /\ DiffEvents(diff_out) = <<>>

\* an Element with two children, one a Component, was diffed against itself
C15_Witness ==
    /\ diff_out.done
    /\ old_tree = new_tree
    /\ old_tree.kind = "Element"
    /\ Len(old_tree.children) = 2
    /\ old_tree.children[2].kind = "Component"
    /\ old_tree.attrs # <<>>

(***************************************************************************)
(* WebsysDom::new: the callback that handles a DOM event                   *)
(***************************************************************************)
\* elements on the path from the event target to the top of the tree
MaxDepth == 2

\* Option<String>::None, what get_attribute gives for a missing attribute
NoAttr == [present |-> FALSE, chars |-> <<>>, ons |-> 0]

\* the value of a data-dioxus-id attribute, as its characters
IdAttr(chars) == [present |-> TRUE, chars |-> chars, ons |-> 0]

\* the value of a dioxus-prevent-default attribute: `ons` times "on", then
\* `rest`, a string that does not start with "on"
PreventAttr(ons, rest) == [present |-> TRUE, chars |-> <<rest>>, ons |-> ons]

\* an Element: its two attributes and whether it is an HtmlElement
Element(id, prevent, html) == [id |-> id, prevent |-> prevent, html |-> html]

\* the value of a decimal digit, -1 for any other character
DigitValue(c) ==
    CASE c = "0" -> 0 [] c = "1" -> 1 [] c = "2" -> 2 [] c = "3" -> 3
      [] c = "4" -> 4 [] c = "5" -> 5 [] c = "6" -> 6 [] c = "7" -> 7
      [] c = "8" -> 8 [] c = "9" -> 9 [] OTHER -> -1

\* the digits of chars read as a decimal number, most significant first
RECURSIVE DigitsValue(_)
DigitsValue(chars) ==
    IF chars = <<>> THEN 0
    ELSE DigitsValue(SubSeq(chars, 1, Len(chars) - 1)) * 10 + DigitValue(chars[Len(chars)])

\* str::parse::<usize>: an optional "+", then one digit or more
Parse(chars) ==
    LET digits == IF chars # <<>> /\ chars[1] = "+" THEN Tail(chars) ELSE chars
    IN IF digits # <<>> /\ \A k \in 1..Len(digits) : DigitValue(digits[k]) >= 0
       THEN [ok |-> TRUE, value |-> DigitsValue(digits)]
       ELSE [ok |-> FALSE, value |-> 0]

\* the match of event_name_from_typ, as <<typ, name>>
EventNameTable ==
    {
     <<"copy", "copy">>, <<"cut", "cut">>, <<"paste", "paste">>,
     <<"compositionend", "compositionend">>,
     <<"compositionstart", "compositionstart">>,
     <<"compositionupdate", "compositionupdate">>, <<"keydown", "keydown">>,
     <<"keypress", "keypress">>, <<"keyup", "keyup">>, <<"focus", "focus">>,
     <<"focusout", "focusout">>, <<"focusin", "focusin">>,
     <<"blur", "blur">>, <<"change", "change">>, <<"input", "input">>,
     <<"invalid", "invalid">>, <<"reset", "reset">>, <<"submit", "submit">>,
     <<"click", "click">>, <<"contextmenu", "contextmenu">>,
     <<"doubleclick", "doubleclick">>, <<"dblclick", "dblclick">>,
     <<"drag", "drag">>, <<"dragend", "dragend">>,
     <<"dragenter", "dragenter">>, <<"dragexit", "dragexit">>,
     <<"dragleave", "dragleave">>, <<"dragover", "dragover">>,
     <<"dragstart", "dragstart">>, <<"drop", "drop">>,
     <<"mousedown", "mousedown">>, <<"mouseenter", "mouseenter">>,
     <<"mouseleave", "mouseleave">>, <<"mousemove", "mousemove">>,
     <<"mouseout", "mouseout">>, <<"mouseover", "mouseover">>,
     <<"mouseup", "mouseup">>, <<"pointerdown", "pointerdown">>,
     <<"pointermove", "pointermove">>, <<"pointerup", "pointerup">>,
     <<"pointercancel", "pointercancel">>,
     <<"gotpointercapture", "gotpointercapture">>,
     <<"lostpointercapture", "lostpointercapture">>,
     <<"pointerenter", "pointerenter">>, <<"pointerleave", "pointerleave">>,
     <<"pointerover", "pointerover">>, <<"pointerout", "pointerout">>,
     <<"select", "select">>, <<"touchcancel", "touchcancel">>,
     <<"touchend", "touchend">>, <<"touchmove", "touchmove">>,
     <<"touchstart", "touchstart">>, <<"scroll", "scroll">>,
     <<"wheel", "wheel">>, <<"animationstart", "animationstart">>,
     <<"animationend", "animationend">>,
     <<"animationiteration", "animationiteration">>,
     <<"transitionend", "transitionend">>, <<"abort", "abort">>,
     <<"canplay", "canplay">>, <<"canplaythrough", "canplaythrough">>,
     <<"durationchange", "durationchange">>, <<"emptied", "emptied">>,
     <<"encrypted", "encrypted">>, <<"ended", "ended">>,
     <<"error", "error">>, <<"loadeddata", "loadeddata">>,
     <<"loadedmetadata", "loadedmetadata">>, <<"loadstart", "loadstart">>,
     <<"pause", "pause">>, <<"play", "play">>, <<"playing", "playing">>,
     <<"progress", "progress">>, <<"ratechange", "ratechange">>,
     <<"seeked", "seeked">>, <<"seeking", "seeking">>,
     <<"stalled", "stalled">>, <<"suspend", "suspend">>,
     <<"timeupdate", "timeupdate">>, <<"volumechange", "volumechange">>,
     <<"waiting", "waiting">>, <<"toggle", "toggle">>
    }

\* the type names event_name_from_typ accepts
EventNames == {p[1] : p \in EventNameTable}

\* event_name_from_typ(typ); any other name panics
EventNameFromTyp(typ) ==
    IF typ \in EventNames
    THEN [panic |-> FALSE, name |-> (CHOOSE p \in EventNameTable : p[1] = typ)[2]]
    ELSE [panic |-> TRUE, name |-> ""]

\* the match of virtual_event_from_websys_event: the event struct of each arm
EventClass(event_name) ==
    CASE event_name \in
             {"copy", "cut", "paste"} -> "ClipboardEvent"
      [] event_name \in
             {"compositionend", "compositionstart", "compositionupdate"} -> "CompositionEvent"
      [] event_name \in
             {"keydown", "keypress", "keyup"} -> "KeyboardEvent"
      [] event_name \in
             {"focus", "blur", "focusout", "focusin"} -> "FocusEvent"
      [] event_name \in
             {"change", "input", "invalid", "reset", "submit"} -> "FormEvent"
      [] event_name \in
             {"click", "contextmenu", "dblclick", "doubleclick", "mousedown",
              "mouseenter", "mouseleave", "mousemove", "mouseout",
              "mouseover", "mouseup"} -> "MouseEvent"
      [] event_name \in
             {"drag", "dragend", "dragenter", "dragexit", "dragleave",
              "dragover", "dragstart", "drop"} -> "DragEvent"
      [] event_name \in
             {"pointerdown", "pointermove", "pointerup", "pointercancel",
              "gotpointercapture", "lostpointercapture", "pointerenter",
              "pointerleave", "pointerover", "pointerout"} -> "PointerEvent"
      [] event_name \in
             {"select"} -> "SelectionEvent"
      [] event_name \in
             {"touchcancel", "touchend", "touchmove", "touchstart"} -> "TouchEvent"
      [] event_name \in
             {"scroll", "wheel"} -> "WheelEvent"
      [] event_name \in
             {"animationstart", "animationend", "animationiteration"} -> "AnimationEvent"
      [] event_name \in
             {"transitionend"} -> "TransitionEvent"
      [] event_name \in
             {"abort", "canplay", "canplaythrough", "durationchange",
              "emptied", "encrypted", "ended", "error", "loadeddata",
              "loadedmetadata", "loadstart", "pause", "play", "playing",
              "progress", "ratechange", "seeked", "seeking", "stalled",
              "suspend", "timeupdate", "volumechange", "waiting"} -> "MediaEvent"
      [] event_name \in
             {"toggle"} -> "ToggleEvent"
      [] OTHER -> "todo"

\* should_prevent of the drag arm
ShouldPrevent(event_name) ==
    event_name \in {"dragenter", "ondragover", "dragleave", "drop"}

\* virtual_event_from_websys_event(event, target): the payload, whether the
\* call panics, and the prevent_default() calls it makes
VirtualEventFromWebsysEvent(ev, el) ==
    LET class == EventClass(ev.typ)
    IN CASE class = "ClipboardEvent" ->
               [panic |-> TRUE, data |-> class, prevents |-> <<>>]
         [] class = "CompositionEvent" ->
               [panic |-> ~ev.native, data |-> class, prevents |-> <<>>]
         [] class = "FormEvent" ->
               [panic |-> ~el.html, data |-> class, prevents |-> <<>>]
         [] class = "DragEvent" ->
               IF ~ev.native
               THEN [panic |-> TRUE, data |-> class, prevents |-> <<>>]
               ELSE [panic |-> FALSE, data |-> class,
                     prevents |-> IF ShouldPrevent(ev.typ) THEN <<"drag">> ELSE <<>>]
         [] class = "todo" ->
               [panic |-> TRUE, data |-> class, prevents |-> <<>>]
         [] OTHER ->
               [panic |-> FALSE, data |-> class, prevents |-> <<>>]

\* Option<ElementId>
NoElement == [some |-> FALSE, id |-> 0]
SomeElement(id) == [some |-> TRUE, id |-> id]

\* UserEvent { name, data, element, priority, .. }
UserEvent(name, data, element, priority) ==
    [name |-> name, data |-> data, element |-> element, priority |-> priority]

\* the anyhow::Result<UserEvent> of the loop
DecodedOk(user_event) == [ok |-> TRUE, value |-> user_event]
DecodedErr == [ok |-> FALSE, value |-> UserEvent("", "", NoElement, "")]
NotDecoded == [ok |-> FALSE, value |-> UserEvent("", "", NoElement, "none")]

\* the match on get_attribute("data-dioxus-id").map(parse) that walks on
\* when the id does not parse (a defect)
MatchTargetSkipBad(el, has_parent) ==
    IF el.id.present /\ Parse(el.id.chars).ok THEN "found"
    ELSE IF has_parent THEN "walk" ELSE "top"

\* the match on get_attribute("data-dioxus-id").map(parse): which arm is taken
MatchTarget(el, has_parent) ==
    IF el.id.present
    THEN IF Parse(el.id.chars).ok THEN "found" ELSE "err"
    ELSE IF has_parent THEN "walk" ELSE "top"

\* the UserEvent of the two Ok arms with the priorities exchanged (a defect)
BreakOkSwapped(arm, name, data, el) ==
    IF arm = "found"
    THEN UserEvent(name, data, SomeElement(Parse(el.id.chars).value), "Low")
    ELSE UserEvent(name, data, NoElement, "Medium")

\* the UserEvent the loop breaks with in its two Ok arms
BreakOk(arm, name, data, el) ==
    IF arm = "found"
    THEN UserEvent(name, data, SomeElement(Parse(el.id.chars).value), "Medium")
    ELSE UserEvent(name, data, NoElement, "Low")

\* one turn of the loop: match on the attribute of `target`
Walk ==
    /\ pc = "walk"
    /\ LET el == path[target]
           arm == MatchTarget(el, target < Len(path))
           name == EventNameFromTyp(event.typ)
           data == VirtualEventFromWebsysEvent(event, el)
       IN CASE arm = "walk" ->
                  /\ target' = target + 1
                  /\ UNCHANGED <<pc, decoded, prevented>>
            [] arm = "err" ->
                  /\ decoded' = DecodedErr
                  /\ pc' = "decoded"
                  /\ UNCHANGED <<target, prevented>>
            [] OTHER ->
                  IF name.panic
                  THEN /\ pc' = "panicked"
                       /\ UNCHANGED <<target, decoded, prevented>>
                  ELSE IF data.panic
                  THEN /\ pc' = "panicked"
                       /\ UNCHANGED <<target, decoded, prevented>>
                  ELSE /\ decoded' = DecodedOk(BreakOk(arm, name.name, data.data, el))
                       /\ prevented' = prevented \o data.prevents
                       /\ pc' = "decoded"
                       /\ UNCHANGED target
    /\ UNCHANGED <<event, path, sent>>
    /\ UNCHANGED <<domVars, editVars, diffVars>>

\* str::strip_prefix("on") in its place: one leading "on" is dropped (a defect)
StripPrefixOn(attr) == [attr EXCEPT !.ons = IF @ > 0 THEN @ - 1 ELSE 0]

\* str::trim_start_matches("on"): every leading "on" is dropped
TrimStartMatchesOn(attr) == [attr EXCEPT !.ons = 0]

\* the test on the dioxus-prevent-default attribute: the value is the event
\* name, or is the event name once trimmed
PreventMatches(attr, name) ==
    \/ attr = PreventAttr(0, name)
    \/ TrimStartMatchesOn(attr) = PreventAttr(0, name)

\* after the loop: prevent the default if asked to, then call sender_callback
Deliver ==
    /\ pc = "decoded"
    /\ IF decoded.ok
       THEN /\ prevented' =
                 IF /\ path[target].html
                    /\ path[target].prevent.present
                    /\ PreventMatches(path[target].prevent, decoded.value.name)
                 THEN Append(prevented, "attribute")
                 ELSE prevented
            /\ sent' = Append(sent, decoded.value)
       ELSE UNCHANGED <<prevented, sent>>
    /\ pc' = "done"
    /\ UNCHANGED <<event, path, target, decoded>>
    /\ UNCHANGED <<domVars, editVars, diffVars>>

\* a web_sys::Event: its type and whether it has the interface of its type
DomEvent(typ, native) == [typ |-> typ, native |-> native]

\* a type name neither match knows
UnsupportedTyp == "resize"

\* the event types of the model of the walk
SampleTyps ==
    {"click", "copy", "input", "compositionend", "drag", "dragover", "drop",
     UnsupportedTyp}

\* the elements of the model of the walk
Elements ==
    {Element(id, prevent, html) :
        id \in {NoAttr, IdAttr(<<"1", "2">>), IdAttr(<<"x">>)},
        prevent \in {NoAttr, PreventAttr(0, "click"), PreventAttr(1, "click")},
        html \in BOOLEAN}

\* the elements of the model of the decoding
PlainElements ==
    {Element(id, NoAttr, html) : id \in {NoAttr, IdAttr(<<"7">>)}, html \in BOOLEAN}

\* the non-empty sequences over S of length at most n
PathsUpTo(S, n) == SeqsUpTo(S, n) \ {<<>>}

\* the callback is called with an event
HandlerStart ==
    /\ NewWithProps
    /\ NoEdits
    /\ NoDiff
    /\ target = 1
    /\ pc = "walk"
    /\ decoded = NotDecoded
    /\ sent = <<>>
    /\ prevented = <<>>

\* an event of a sample type arrives on any path
HandlerInit ==
    /\ HandlerStart
    /\ event \in {DomEvent(typ, native) : typ \in SampleTyps, native \in BOOLEAN}
    /\ path \in PathsUpTo(Elements, MaxDepth)

\* an event of any type arrives on a short path
TypesInit ==
    /\ HandlerStart
    /\ event \in {DomEvent(typ, native) :
                     typ \in EventNames \cup {UnsupportedTyp}, native \in BOOLEAN}
    /\ path \in PathsUpTo(PlainElements, MaxDepth)

HandlerNext ==
    \/ Walk
    \/ Deliver

SpecHandler == HandlerInit /\ [][HandlerNext]_vars

SpecTypes == TypesInit /\ [][HandlerNext]_vars

\* the event types of the model of the dioxus-prevent-default attribute
PreventTyps == {"click", "input", "drop"}

\* the elements of the model of the dioxus-prevent-default attribute: the
\* value is absent, "click", "onclick", "ononclick" or "oninput"
PreventElements ==
    {Element(id, prevent, html) :
        id \in {NoAttr, IdAttr(<<"1", "2">>), IdAttr(<<"x">>)},
        prevent \in {NoAttr, PreventAttr(0, "click"), PreventAttr(1, "click"),
                     PreventAttr(2, "click"), PreventAttr(1, "input")},
        html \in BOOLEAN}

\* an event arrives on a path of elements with dioxus-prevent-default values
PreventInit ==
    /\ HandlerStart
    /\ event \in {DomEvent(typ, native) : typ \in PreventTyps, native \in BOOLEAN}
    /\ path \in PathsUpTo(PreventElements, MaxDepth)

SpecPrevent == PreventInit /\ [][HandlerNext]_vars

(***************************************************************************)
(* Properties of the event callback                                        *)
(***************************************************************************)
\* the position in p of the nearest element with a data-dioxus-id, 0 if none
Nearest(p) ==
    IF \E k \in 1..Len(p) : p[k].id.present
    THEN CHOOSE k \in 1..Len(p) :
            /\ p[k].id.present
            /\ \A j \in 1..(k - 1) : ~p[j].id.present
    ELSE 0

\* how many times the call site `site` has called prevent_default()
PreventCalls(site) == Cardinality({k \in 1..Len(prevented) : prevented[k] = site})

\* C17: the UserEvent carries the id of the nearest element, from the target
\* upwards, that has a data-dioxus-id, with priority Medium; with no such
\* element it carries no element and priority Low. Every turn of the walk
\* moves one element up and stays on the path, so the walk ends.
C17_ResolvesNearestElement ==
    [][/\ (pc' = "done" /\ sent' # <<>>)
          => IF Nearest(path) # 0
             THEN /\ sent'[1].element.some
                  /\ sent'[1].element.id = Parse(path[Nearest(path)].id.chars).value
                  /\ sent'[1].priority = "Medium"
             ELSE /\ sent'[1].element = NoElement
                  /\ sent'[1].priority = "Low"
       /\ (pc = "walk" /\ pc' = "walk") => target' = target + 1
       /\ target' \in 1..Len(path)]_vars

\* the walk went one element up and found the id 12 there
C17_Witness ==
    /\ pc = "done"
    /\ Len(path) >= 2
    /\ ~path[1].id.present
    /\ path[2].id = IdAttr(<<"1", "2">>)
    /\ sent # <<>>
    /\ sent[1].element = SomeElement(12)
    /\ sent[1].priority = "Medium"

\* C18: sender_callback is called at most once per event: once when the
\* decoding succeeded, and not at all when the id of the nearest element with
\* a data-dioxus-id does not parse; the walk stops at that element.
C18_SentAtMostOnce ==
    /\ Len(sent) <= 1
    /\ pc = "done" => (decoded.ok <=> Len(sent) = 1)
    /\ (Nearest(path) # 0 /\ ~Parse(path[Nearest(path)].id.chars).ok)
          => /\ sent = <<>>
             /\ target <= Nearest(path)
             /\ pc = "done" => target = Nearest(path)

\* the event was dropped at an id that does not parse, below a valid id
C18_Witness ==
    /\ pc = "done"
    /\ sent = <<>>
    /\ Len(path) >= 2
    /\ path[1].id = IdAttr(<<"x">>)
    /\ path[2].id = IdAttr(<<"1", "2">>)
    /\ event.typ = "click"

\* C19: when a drag event is decoded, the default is prevented exactly for
\* dragenter, dragover, dragleave and drop.
C19_DragPreventsDefault ==
    (decoded.ok /\ EventClass(event.typ) = "DragEvent")
        => IF event.typ \in {"dragenter", "dragover", "dragleave", "drop"}
           THEN PreventCalls("drag") = 1
           ELSE PreventCalls("drag") = 0

\* C20: every type name event_name_from_typ accepts is named by itself and
\* is decoded without a panic, so the UserEvent sent carries the type as its
\* name; only the other type names abort the handler. (Stated for events that
\* have the interface of their type, on HtmlElements.)
C20_AcceptedNamesDecode ==
    (event.native /\ \A k \in 1..Len(path) : path[k].html)
        => /\ event.typ \in EventNames
              => /\ EventNameFromTyp(event.typ).name = event.typ
                 /\ pc # "panicked"
                 /\ pc = "done" => (sent # <<>> /\ sent[1].name = event.typ)
           /\ pc = "panicked" => event.typ \notin EventNames

\* the dioxus-prevent-default value of el is the name preceded by "on"
\* exactly `ons` times
HasPreventValue(el, ons, name) ==
    /\ el.prevent.present
    /\ el.prevent.ons = ons
    /\ el.prevent.chars = <<name>>

\* C21 as stated: after a successful decode the handler calls
\* prevent_default exactly when the resolved target has a
\* dioxus-prevent-default attribute whose value is the event name or the
\* event name prefixed by a single "on"; otherwise this step does not call it.
C21_PreventOnNameOrSingleOn ==
    (pc = "done" /\ decoded.ok)
        => IF \/ HasPreventValue(path[target], 0, decoded.value.name)
              \/ HasPreventValue(path[target], 1, decoded.value.name)
           THEN PreventCalls("attribute") = 1
           ELSE PreventCalls("attribute") = 0

\* C21 as amended: after a successful decode the handler calls
\* prevent_default exactly when the resolved target is an HtmlElement and has
\* a dioxus-prevent-default attribute whose value is the event name preceded
\* by "on" any number of times (none, one or more); otherwise, and when the
\* decoding failed, this step does not call it.
C21_PreventOnNameAfterOns ==
    /\ (pc = "done" /\ decoded.ok)
          => IF /\ path[target].html
                /\ \E ons \in 0..path[target].prevent.ons :
                      HasPreventValue(path[target], ons, decoded.value.name)
             THEN PreventCalls("attribute") = 1
             ELSE PreventCalls("attribute") = 0
    /\ (pc # "done" \/ ~decoded.ok) => PreventCalls("attribute") = 0

\* a click resolved to the parent of its target, whose attribute is
\* "ononclick", and the default was prevented
C21_Witness ==
    /\ pc = "done"
    /\ decoded.ok
    /\ event.typ = "click"
    /\ target = 2
    /\ path[2].html
    /\ path[2].prevent = PreventAttr(2, "click")
    /\ prevented = <<"attribute">>
    /\ Len(sent) = 1

(***************************************************************************)
(* The frame of VirtualDom::progress                                       *)
(***************************************************************************)
\* q is what is left of p once elements were taken from its end
IsPrefix(q, p) ==
    /\ Len(q) <= Len(p)
    /\ q = SubSeq(p, 1, Len(q))

\* C22: progress() changes the arena only when it processes a Removed event,
\* and then it removes exactly the target scope: after a Mount, PropsChanged,
\* Mounted or Messaged event, and after a call that failed, the arena is as
\* it was; no call adds an event to the queue or changes base_scope or
\* root_props.
C22_ProgressFrame ==
    [][lastOp' = "progress"
         => /\ IF ret' = "Ok" /\ popped'.event_type.tag = "Removed"
               THEN /\ popped'.index \in Live(components)
                    /\ Live(components') = Live(components) \ {popped'.index}
                    /\ \A i \in Live(components') :
                          ArenaGet(components', i) = ArenaGet(components, i)
               ELSE components' = components
            /\ IsPrefix(event_queue', event_queue)
            /\ base_scope' = base_scope
            /\ root_props' = root_props]_vars

\* a Removed event took one scope out of an arena of two or more, and a
\* Mounted event was processed: the other scopes are still valid
C22_Witness ==
    /\ lastOp = "progress"
    /\ ret = "Ok"
    /\ popped.event_type.tag = "Removed"
    /\ popped.index \in issued
    /\ ~ArenaContains(components, popped.index)
    /\ Live(components) # {}
    /\ \E i \in issued : [index |-> i, tag |-> "Mounted"] \in seen

====
